---------------------------- MODULE Spec2Model ----------------------------
(***************************************************************************)
(* NotCopy<T>: a one-field tuple struct that forwards trait operations to  *)
(* the value it holds and does not derive Copy (src/src/lib.rs).           *)
(*                                                                         *)
(* The model runs every operation of the wrapper side by side with the     *)
(* same operation of a bare T.  T ranges over four instantiations:         *)
(*   "uint"  an unsigned integer of IntBits bits (compound assignment,     *)
(*           Eq, Ord, Hash, Display, Debug, Serialize, Deserialize),       *)
(*   "vec"   a Vec of small unsigned integers (Index, IndexMut, Eq, Ord,   *)
(*           Hash, Debug, Serialize, Deserialize),                         *)
(*   "float" a partially ordered number with a NaN (PartialEq, PartialOrd),*)
(*   "char"  a character (Eq, Ord, Hash, Display, Debug).                  *)
(* A tuple struct NotCopy(v) is the 1-tuple <<v>>; self.0 is self[1].      *)
(***************************************************************************)
EXTENDS Integers, Sequences, FiniteSets, TLC

\* ------------------------------------------------------------ bounds
IntBits == 4
MaxLen == 2
MaxElem == 2
MaxWidth == 3
MaxInst == 3

VARIABLES
    ty,                 \* the type parameter T of the NotCopy<T> under test
    overflow_checks,    \* build profile: are integer overflow checks compiled in
    w,                  \* the wrapper, NotCopy<T>
    bare,               \* a bare T that receives the same operations
    last,               \* the operation performed last and its operand
    wres,               \* what that operation returned on the wrapper
    bres,               \* what the same operation returned on the bare T
    slots,              \* ownership: binding -> the instance it holds, or moved
    made                \* ownership: how every instance so far was created

vars == <<ty, overflow_checks, w, bare, last, wres, bres, slots, made>>

\* ------------------------------------------------------------ outcomes
Unit == <<>>
Ok(v) == [kind |-> "ok", msg |-> "", val |-> v]
Panic(m) == [kind |-> "panic", msg |-> m, val |-> Unit]
Err(e) == [kind |-> "err", msg |-> e, val |-> Unit]
IsOk(r) == r.kind = "ok"

\* ------------------------------------------------------------ T = uint
RECURSIVE Pow2(_)
Pow2(n) == IF n = 0 THEN 1 ELSE 2 * Pow2(n - 1)

Modulus == Pow2(IntBits)
UInt == 0 .. (Modulus - 1)

\* A checked arithmetic result x of an IntBits-wide unsigned integer place
\* holding v: stored if it fits; otherwise a panic when overflow checks are
\* compiled in, and the wrapped value when they are not.
Arith(v, x, what) ==
    IF x \in UInt THEN [st |-> x, res |-> Ok(Unit)]
    ELSE IF overflow_checks THEN [st |-> v, res |-> Panic(what)]
    ELSE [st |-> x % Modulus, res |-> Ok(Unit)]

T_add_assign(v, rhs) == Arith(v, v + rhs, "attempt to add with overflow")
T_sub_assign(v, rhs) == Arith(v, v - rhs, "attempt to subtract with overflow")
T_mul_assign(v, rhs) == Arith(v, v * rhs, "attempt to multiply with overflow")

T_div_assign(v, rhs) ==
    IF rhs = 0 THEN [st |-> v, res |-> Panic("attempt to divide by zero")]
    ELSE [st |-> v \div rhs, res |-> Ok(Unit)]

T_rem_assign(v, rhs) ==
    IF rhs = 0
    THEN [st |-> v,
          res |-> Panic("attempt to calculate the remainder with a divisor of zero")]
    ELSE [st |-> v % rhs, res |-> Ok(Unit)]

\* A shift by IntBits or more overflows: a panic with overflow checks, and a
\* shift by the amount masked to the width without them.
T_shl_assign(v, rhs) ==
    IF rhs >= IntBits /\ overflow_checks
    THEN [st |-> v, res |-> Panic("attempt to shift left with overflow")]
    ELSE [st |-> (v * Pow2(rhs % IntBits)) % Modulus, res |-> Ok(Unit)]

T_shr_assign(v, rhs) ==
    IF rhs >= IntBits /\ overflow_checks
    THEN [st |-> v, res |-> Panic("attempt to shift right with overflow")]
    ELSE [st |-> v \div Pow2(rhs % IntBits), res |-> Ok(Unit)]

RECURSIVE Bitwise(_, _, _, _)
Bitwise(f, a, b, n) ==
    IF n = 0 THEN 0
    ELSE (IF f = "and" THEN (IF a % 2 = 1 /\ b % 2 = 1 THEN 1 ELSE 0)
          ELSE IF f = "or" THEN (IF a % 2 = 1 \/ b % 2 = 1 THEN 1 ELSE 0)
          ELSE (IF a % 2 # b % 2 THEN 1 ELSE 0))
         + 2 * Bitwise(f, a \div 2, b \div 2, n - 1)

T_bitand_assign(v, rhs) == [st |-> Bitwise("and", v, rhs, IntBits), res |-> Ok(Unit)]
T_bitor_assign(v, rhs) == [st |-> Bitwise("or", v, rhs, IntBits), res |-> Ok(Unit)]
T_bitxor_assign(v, rhs) == [st |-> Bitwise("xor", v, rhs, IntBits), res |-> Ok(Unit)]

\* ------------------------------------------------------------ NotCopy<T>
\* pub struct NotCopy<T>(pub T);
NotCopy(t) == <<t>>

\* (mutant) the struct also derives Copy.
derives_with_Copy ==
    {"Default", "Clone", "Copy", "PartialOrd", "Ord", "PartialEq", "Eq", "Hash"}

\* The traits the struct derives.
derives == {"Default", "Clone", "PartialOrd", "Ord", "PartialEq", "Eq", "Hash"}

\* (mutant) the compound assignment lands on a copy of self.0, not on self.0.
Forward_on_copy(self, r) == [st |-> self, res |-> r.res]

\* `self.0 op= rhs`: T's compound assignment on the place self.0.
Forward(self, r) == [st |-> [self EXCEPT ![1] = r.st], res |-> r.res]

add_assign(self, rhs) == Forward(self, T_add_assign(self[1], rhs))
sub_assign(self, rhs) == Forward(self, T_sub_assign(self[1], rhs))
mul_assign(self, rhs) == Forward(self, T_mul_assign(self[1], rhs))
div_assign(self, rhs) == Forward(self, T_div_assign(self[1], rhs))
rem_assign(self, rhs) == Forward(self, T_rem_assign(self[1], rhs))
shl_assign(self, rhs) == Forward(self, T_shl_assign(self[1], rhs))
shr_assign(self, rhs) == Forward(self, T_shr_assign(self[1], rhs))
bitand_assign(self, rhs) == Forward(self, T_bitand_assign(self[1], rhs))
bitor_assign(self, rhs) == Forward(self, T_bitor_assign(self[1], rhs))
bitxor_assign(self, rhs) == Forward(self, T_bitxor_assign(self[1], rhs))


\* ------------------------------------------------------------ T = vec
\* A reference into a value is the path of positions that leads to the
\* referent; Load reads through it and Store writes through it.
RECURSIVE Load(_, _)
Load(x, path) == IF path = <<>> THEN x ELSE Load(x[Head(path)], Tail(path))

RECURSIVE Store(_, _, _)
Store(x, path, val) ==
    IF path = <<>> THEN val
    ELSE [x EXCEPT ![Head(path)] = Store(x[Head(path)], Tail(path), val)]

\* Vec's indexing by a usize, counted from 0: a reference to the element, or
\* the bounds-check panic.
T_index(v, idx) ==
    IF idx < Len(v) THEN Ok(<<idx + 1>>) ELSE Panic("index out of bounds")

T_index_mut(v, idx) ==
    IF idx < Len(v) THEN Ok(<<idx + 1>>) ELSE Panic("index out of bounds")

\* `&self.0[index]`, `&mut self.0[index]`: T's reference, reached through
\* field 0 of the wrapper.
index(self, idx) ==
    LET r == T_index(self[1], idx)
    IN  IF IsOk(r) THEN Ok(<<1>> \o r.val) ELSE r

\* (mutant) an off-by-one index.
index_mut_off_by_one(self, idx) ==
    LET r == T_index_mut(self[1], idx + 1)
    IN  IF IsOk(r) THEN Ok(<<1>> \o r.val) ELSE r

index_mut(self, idx) ==
    LET r == T_index_mut(self[1], idx)
    IN  IF IsOk(r) THEN Ok(<<1>> \o r.val) ELSE r

\* ------------------------------------------------------------ comparisons
\* A float is [nan, x]; NaN equals nothing and is ordered with nothing.
NaN == [nan |-> TRUE, x |-> 0]
Num(n) == [nan |-> FALSE, x |-> n]

CmpInt(a, b) == IF a < b THEN "Less" ELSE IF a = b THEN "Equal" ELSE "Greater"

RECURSIVE CmpSeq(_, _)
CmpSeq(a, b) ==
    IF a = <<>> /\ b = <<>> THEN "Equal"
    ELSE IF a = <<>> THEN "Less"
    ELSE IF b = <<>> THEN "Greater"
    ELSE IF Head(a) # Head(b) THEN CmpInt(Head(a), Head(b))
    ELSE CmpSeq(Tail(a), Tail(b))

T_eq(t, a, b) ==
    IF t = "float" THEN ~a.nan /\ ~b.nan /\ a.x = b.x
    ELSE IF t = "vec" THEN Len(a) = Len(b) /\ \A i \in 1 .. Len(a) : a[i] = b[i]
    ELSE a = b

T_ne(t, a, b) ==
    IF t = "float" THEN a.nan \/ b.nan \/ a.x # b.x
    ELSE IF t = "vec" THEN Len(a) # Len(b) \/ \E i \in 1 .. Len(a) : a[i] # b[i]
    ELSE a # b

\* Option<Ordering>: "None" when the operands are not ordered.
T_partial_cmp(t, a, b) ==
    IF t = "float" THEN (IF a.nan \/ b.nan THEN "None" ELSE CmpInt(a.x, b.x))
    ELSE IF t = "vec" THEN CmpSeq(a, b)
    ELSE CmpInt(a, b)

T_cmp(t, a, b) == IF t = "vec" THEN CmpSeq(a, b) ELSE CmpInt(a, b)

\* T's own comparison operators.
T_lt(t, a, b) ==
    IF t = "float" THEN ~a.nan /\ ~b.nan /\ a.x < b.x
    ELSE IF t = "vec" THEN CmpSeq(a, b) = "Less"
    ELSE a < b

T_le(t, a, b) ==
    IF t = "float" THEN ~a.nan /\ ~b.nan /\ a.x <= b.x
    ELSE IF t = "vec" THEN CmpSeq(a, b) \in {"Less", "Equal"}
    ELSE a <= b

T_gt(t, a, b) ==
    IF t = "float" THEN ~a.nan /\ ~b.nan /\ a.x > b.x
    ELSE IF t = "vec" THEN CmpSeq(a, b) = "Greater"
    ELSE a > b

T_ge(t, a, b) ==
    IF t = "float" THEN ~a.nan /\ ~b.nan /\ a.x >= b.x
    ELSE IF t = "vec" THEN CmpSeq(a, b) \in {"Greater", "Equal"}
    ELSE a >= b

\* (mutant) equality of the representations instead of T's equality.
eq_bitwise(t, self, other) == self = other

\* derive(PartialEq): field 0 of self against field 0 of other.
eq(t, self, other) == T_eq(t, self[1], other[1])
ne(t, self, other) == T_ne(t, self[1], other[1])

\* derive(PartialOrd) writes partial_cmp on field 0; lt, le, gt and ge are
\* the trait's provided methods, which read partial_cmp.
\* (mutant) the operands swapped.
partial_cmp_swapped(t, self, other) == T_partial_cmp(t, other[1], self[1])

partial_cmp(t, self, other) == T_partial_cmp(t, self[1], other[1])
lt(t, self, other) == partial_cmp(t, self, other) = "Less"
le(t, self, other) == partial_cmp(t, self, other) \in {"Less", "Equal"}
gt(t, self, other) == partial_cmp(t, self, other) = "Greater"
ge(t, self, other) == partial_cmp(t, self, other) \in {"Greater", "Equal"}

\* derive(Ord)
cmp(t, self, other) == T_cmp(t, self[1], other[1])

\* ------------------------------------------------------------ hashing
\* A Hasher is the stream of words written to it so far: the hasher that
\* tells apart any two things fed to it.
T_hash(t, v, state) ==
    IF t = "vec" THEN state \o <<Len(v)>> \o v
    ELSE Append(state, v)

\* (mutant) a field count is hashed before the field.
hash_prefixed(t, self, state) == T_hash(t, self[1], Append(state, 1))

\* derive(Hash): a struct hashes its fields in order, and nothing else.
hash(t, self, state) == T_hash(t, self[1], state)

\* derive(Default), derive(Clone)
T_default(t) ==
    IF t = "float" THEN Num(0) ELSE IF t = "vec" THEN <<>> ELSE 0
T_clone(v) == v
default(t) == NotCopy(T_default(t))
clone(self) == NotCopy(T_clone(self[1]))

\* impl<T> From<T> for T: the reflexive conversion that `t.into()` resolves
\* to when a T is wanted.
T_into(t) == t
\* (mutant) the argument is dropped and T's default wrapped.
from_default(t) == NotCopy(T_default(ty))

from(t) == NotCopy(T_into(t))

\* ------------------------------------------------------------ formatting
\* A Formatter: the flags of the format spec ({:#}, {:+}, {:width}), the
\* text written so far, and how many more characters its writer accepts
\* before write_str fails.
Write(f, text) ==
    IF Len(text) <= f.room
    THEN [res |-> Ok(Unit),
          f |-> [f EXCEPT !.buf = @ \o text, !.room = @ - Len(text)]]
    ELSE [res |-> Err("fmt::Error"),
          f |-> [f EXCEPT !.buf = @ \o SubSeq(text, 1, f.room), !.room = 0]]

Spaces(n) == [i \in 1 .. n |-> " "]

\* Padding to the formatter's width: numbers to the right, text to the left.
PadNum(f, text) ==
    IF Len(text) < f.width THEN Spaces(f.width - Len(text)) \o text ELSE text
PadText(f, text) ==
    IF Len(text) < f.width THEN text \o Spaces(f.width - Len(text)) ELSE text

DigitChar(d) ==
    CASE d = 0 -> "0" [] d = 1 -> "1" [] d = 2 -> "2" [] d = 3 -> "3"
      [] d = 4 -> "4" [] d = 5 -> "5" [] d = 6 -> "6" [] d = 7 -> "7"
      [] d = 8 -> "8" [] d = 9 -> "9"

RECURSIVE Digits(_)
Digits(n) ==
    IF n < 10 THEN <<DigitChar(n)>>
    ELSE Append(Digits(n \div 10), DigitChar(n % 10))

\* A char is its rank among the letters the model draws.
CharOf(c) == IF c = 0 THEN "a" ELSE IF c = 1 THEN "b" ELSE "c"

\* The decimal text of an unsigned integer under the formatter's flags.
NumText(f, n) == PadNum(f, (IF f.plus THEN <<"+">> ELSE <<>>) \o Digits(n))

\* Debug of a Vec (debug_list): every element with the formatter's flags;
\* "[1, 2]", and with {:#?} one element per line, indented, comma-ended.
RECURSIVE ListText(_, _, _)
ListText(f, v, first) ==
    IF v = <<>> THEN <<>>
    ELSE (IF f.alternate THEN <<" ", " ", " ", " ">> \o NumText(f, Head(v)) \o <<",", "\n">>
          ELSE (IF first THEN <<>> ELSE <<",", " ">>) \o NumText(f, Head(v)))
         \o ListText(f, Tail(v), FALSE)

VecText(f, v) ==
    <<"[">> \o (IF f.alternate /\ v # <<>> THEN <<"\n">> ELSE <<>>)
            \o ListText(f, v, TRUE) \o <<"]">>

\* <T as Display>::fmt
T_Display_fmt(t, v, f) ==
    IF t = "char" THEN Write(f, PadText(f, <<CharOf(v)>>))
    ELSE Write(f, NumText(f, v))

\* <T as Debug>::fmt
T_Debug_fmt(t, v, f) ==
    IF t = "char" THEN Write(f, <<"'", CharOf(v), "'">>)
    ELSE IF t = "vec" THEN Write(f, VecText(f, v))
    ELSE Write(f, NumText(f, v))

\* impl Display for NotCopy<T> where T: Display: `self.0.fmt(f)` is the fmt
\* of the bound, Display.
Display_fmt(t, self, f) == T_Display_fmt(t, self[1], f)

\* (mutant) what derive(Debug) writes: NotCopy(<field>).
Debug_fmt_derived(t, self, f) ==
    LET open == Write(f, <<"N", "o", "t", "C", "o", "p", "y", "(">>)
        field == T_Debug_fmt(t, self[1], open.f)
    IN  IF ~IsOk(open.res) THEN open
        ELSE IF ~IsOk(field.res) THEN field
        ELSE Write(field.f, <<")">>)

\* impl Debug for NotCopy<T> where T: Debug: `self.0.fmt(f)` is the fmt of
\* the bound, Debug.
Debug_fmt(t, self, f) == T_Debug_fmt(t, self[1], f)

\* ------------------------------------------------------------ serde
\* A Serializer writes tokens of the serde data model and accepts `room` of
\* them before it fails; its Ok is the token stream.
Tok(k, n) == [t |-> k, v |-> n]

Emit(s, toks) ==
    IF Len(toks) <= s.room THEN Ok(s.out \o toks) ELSE Err("serializer error")

\* <T as Serialize>::serialize: serialize_u8, or serialize_seq with every
\* element and end.
T_serialize(t, v, s) ==
    IF t = "vec"
    THEN Emit(s, <<Tok("Seq", Len(v))>> \o [i \in 1 .. Len(v) |-> Tok("U8", v[i])]
                 \o <<Tok("SeqEnd", 0)>>)
    ELSE Emit(s, <<Tok("U8", v)>>)

\* <T as Deserialize>::deserialize from a Deserializer that holds `input`.
T_deserialize(t, input) ==
    IF input = <<>> THEN Err("unexpected end of input")
    ELSE IF t = "vec"
    THEN LET n == input[1].v
         IN  IF input[1].t # "Seq" THEN Err("invalid type")
             ELSE IF Len(input) < n + 2 THEN Err("unexpected end of input")
             ELSE IF \E i \in 2 .. (n + 1) : input[i].t # "U8" THEN Err("invalid type")
             ELSE IF input[n + 2].t # "SeqEnd" THEN Err("invalid length")
             ELSE Ok([i \in 1 .. n |-> input[i + 1].v])
    ELSE IF input[1].t # "U8" THEN Err("invalid type")
    ELSE IF input[1].v \notin UInt THEN Err("invalid value")
    ELSE Ok(input[1].v)

\* (mutant) what derive(Serialize) writes: serialize_newtype_struct.
serialize_newtype(t, self, serializer) ==
    LET r == T_serialize(t, self[1], [serializer EXCEPT !.room = @ - 1])
    IN  IF serializer.room = 0 THEN Err("serializer error")
        ELSE IF IsOk(r) THEN Ok(<<Tok("NewtypeStruct", 0)>> \o r.val)
        ELSE r

\* T::serialize(&self.0, serializer)
serialize(t, self, serializer) == T_serialize(t, self[1], serializer)

\* (mutant) a failed deserialization is replaced by the default.
deserialize_or_default(t, deserializer) ==
    LET r == T_deserialize(t, deserializer)
    IN  IF IsOk(r) THEN Ok(NotCopy(r.val)) ELSE Ok(NotCopy(T_default(t)))

\* T::deserialize(deserializer).map(NotCopy)
deserialize(t, deserializer) ==
    LET r == T_deserialize(t, deserializer)
    IN  IF IsOk(r) THEN Ok(NotCopy(r.val)) ELSE r

\* ------------------------------------------------------------ inputs
Types == {"uint", "vec", "float", "char"}
Elems == 0 .. MaxElem

RECURSIVE SeqsUpTo(_, _)
SeqsUpTo(S, n) ==
    IF n = 0 THEN {<<>>}
    ELSE SeqsUpTo(S, n - 1)
         \cup {Append(q, e) : q \in {p \in SeqsUpTo(S, n - 1) : Len(p) = n - 1}, e \in S}

Vecs == SeqsUpTo(Elems, MaxLen)
Floats == {NaN} \cup {Num(n) : n \in Elems}
Chars == 0 .. 2

Values(t) ==
    IF t = "uint" THEN UInt
    ELSE IF t = "vec" THEN Vecs
    ELSE IF t = "float" THEN Floats
    ELSE Chars

\* The trait bounds of the impls: which T has which operation.
HasCompound(t) == t = "uint"
HasIndex(t) == t = "vec"
HasOrd(t) == t \in {"uint", "vec", "char"}
HasHash(t) == t \in {"uint", "vec", "char"}
HasDisplay(t) == t \in {"uint", "char"}
HasDebug(t) == t \in {"uint", "vec", "char"}
HasSerde(t) == t \in {"uint", "vec"}

Rooms == {0, 2, 64}
Formatters ==
    [alternate : BOOLEAN, plus : BOOLEAN, width : 0 .. MaxWidth, room : Rooms,
     buf : {<<>>}]
Hashers == {<<>>, <<7>>}
Serializers == [out : {<<>>}, room : {0, 1, 64}]
Inputs ==
    { <<>>,
      <<Tok("U8", 5)>>,
      <<Tok("U8", Modulus)>>,
      <<Tok("Str", 0)>>,
      <<Tok("NewtypeStruct", 0), Tok("U8", 5)>>,
      <<Tok("Seq", 1), Tok("U8", 1), Tok("SeqEnd", 0)>>,
      <<Tok("Seq", 2), Tok("U8", 1)>>,
      <<Tok("Seq", 1), Tok("Str", 0), Tok("SeqEnd", 0)>>,
      <<Tok("Seq", 1), Tok("U8", 1), Tok("U8", 2)>> }

Bindings == {"a", "b", "c"}
Uninit == [state |-> "uninit", inst |-> 0, val |-> <<0>>]
Moved == [state |-> "moved", inst |-> 0, val |-> <<0>>]
Live(i, x) == [state |-> "live", inst |-> i, val |-> x]

\* ------------------------------------------------------------ Init
Init ==
    /\ ty \in Types
    /\ overflow_checks \in BOOLEAN
    /\ \E v \in Values(ty) :
          /\ w = NotCopy(v)
          /\ bare = v
          /\ last = [op |-> "new", arg |-> v]
    /\ wres = Ok(Unit)
    /\ bres = Ok(Unit)
    /\ slots = [b \in Bindings |-> Uninit]
    /\ made = <<>>

\* One statement runs at a time: an operation starts when the temporaries of
\* the statement before it have been dropped.
Idle == last.op = "none"

Build == UNCHANGED <<ty, overflow_checks>>
NoOwn == UNCHANGED <<slots, made>>
Pure == UNCHANGED <<w, bare>>

\* ------------------------------------------------------------ construction
\* let w = NotCopy(v);
New ==
    \E v \in Values(ty) :
        /\ Idle
        /\ w' = NotCopy(v)
        /\ bare' = v
        /\ last' = [op |-> "new", arg |-> v]
        /\ wres' = Ok(Unit)
        /\ bres' = Ok(Unit)
        /\ Build /\ NoOwn

\* let w: NotCopy<T> = v.into();
From ==
    \E v \in Values(ty) :
        /\ Idle
        /\ w' = from(v)
        /\ bare' = v
        /\ last' = [op |-> "from", arg |-> v]
        /\ wres' = Ok(Unit)
        /\ bres' = Ok(Unit)
        /\ Build /\ NoOwn

\* let w = NotCopy::<T>::default();  (the default char, NUL, is not among
\* the letters the model draws)
Default ==
    /\ Idle
    /\ ty # "char"
    /\ w' = default(ty)
    /\ bare' = T_default(ty)
    /\ last' = [op |-> "default", arg |-> Unit]
    /\ wres' = Ok(Unit)
    /\ bres' = Ok(Unit)
    /\ Build /\ NoOwn

\* ------------------------------------------------------------ compound assignment
\* `w op= rhs` beside `bare op= rhs`.
Compound(name, rhs, rw, rb) ==
    /\ Idle
    /\ HasCompound(ty)
    /\ w' = rw.st
    /\ bare' = rb.st
    /\ last' = [op |-> name, arg |-> rhs]
    /\ wres' = rw.res
    /\ bres' = rb.res
    /\ Build /\ NoOwn

AddAssign == \E rhs \in UInt : Compound("add_assign", rhs, add_assign(w, rhs), T_add_assign(bare, rhs))
SubAssign == \E rhs \in UInt : Compound("sub_assign", rhs, sub_assign(w, rhs), T_sub_assign(bare, rhs))
MulAssign == \E rhs \in UInt : Compound("mul_assign", rhs, mul_assign(w, rhs), T_mul_assign(bare, rhs))
DivAssign == \E rhs \in UInt : Compound("div_assign", rhs, div_assign(w, rhs), T_div_assign(bare, rhs))
RemAssign == \E rhs \in UInt : Compound("rem_assign", rhs, rem_assign(w, rhs), T_rem_assign(bare, rhs))
ShlAssign == \E rhs \in UInt : Compound("shl_assign", rhs, shl_assign(w, rhs), T_shl_assign(bare, rhs))
ShrAssign == \E rhs \in UInt : Compound("shr_assign", rhs, shr_assign(w, rhs), T_shr_assign(bare, rhs))
BitAndAssign == \E rhs \in UInt : Compound("bitand_assign", rhs, bitand_assign(w, rhs), T_bitand_assign(bare, rhs))
BitOrAssign == \E rhs \in UInt : Compound("bitor_assign", rhs, bitor_assign(w, rhs), T_bitor_assign(bare, rhs))
BitXorAssign == \E rhs \in UInt : Compound("bitxor_assign", rhs, bitxor_assign(w, rhs), T_bitxor_assign(bare, rhs))

\* ------------------------------------------------------------ indexing
\* let x = w[idx]; beside let x = bare[idx];
Index ==
    \E idx \in 0 .. (MaxLen + 1) :
        LET rw == index(w, idx)
            rb == T_index(bare, idx)
        IN  /\ Idle
            /\ HasIndex(ty)
            /\ last' = [op |-> "index", arg |-> idx]
            /\ wres' = (IF IsOk(rw) THEN Ok(Load(w, rw.val)) ELSE rw)
            /\ bres' = (IF IsOk(rb) THEN Ok(Load(bare, rb.val)) ELSE rb)
            /\ Pure /\ Build /\ NoOwn

\* w[idx] = x; beside bare[idx] = x;
IndexMut ==
    \E idx \in 0 .. (MaxLen + 1), x \in Elems :
        LET rw == index_mut(w, idx)
            rb == T_index_mut(bare, idx)
        IN  /\ Idle
            /\ HasIndex(ty)
            /\ last' = [op |-> "index_mut", arg |-> <<idx, x>>]
            /\ w' = (IF IsOk(rw) THEN Store(w, rw.val, x) ELSE w)
            /\ bare' = (IF IsOk(rb) THEN Store(bare, rb.val, x) ELSE bare)
            /\ wres' = (IF IsOk(rw) THEN Ok(Unit) ELSE rw)
            /\ bres' = (IF IsOk(rb) THEN Ok(Unit) ELSE rb)
            /\ Build /\ NoOwn

\* ------------------------------------------------------------ read-only operations
\* An operation that reads w (and one that reads bare) and returns.
Returns(name, arg, rw, rb) ==
    /\ last' = [op |-> name, arg |-> arg]
    /\ wres' = rw
    /\ bres' = rb
    /\ Pure /\ Build /\ NoOwn

Reads(name, arg, rw, rb) == Idle /\ Returns(name, arg, rw, rb)

Eq == \E v \in Values(ty) : Reads("eq", v, Ok(eq(ty, w, NotCopy(v))), Ok(T_eq(ty, bare, v)))
Ne == \E v \in Values(ty) : Reads("ne", v, Ok(ne(ty, w, NotCopy(v))), Ok(T_ne(ty, bare, v)))
PartialCmp ==
    \E v \in Values(ty) :
        Reads("partial_cmp", v, Ok(partial_cmp(ty, w, NotCopy(v))), Ok(T_partial_cmp(ty, bare, v)))
Lt == \E v \in Values(ty) : Reads("lt", v, Ok(lt(ty, w, NotCopy(v))), Ok(T_lt(ty, bare, v)))
Le == \E v \in Values(ty) : Reads("le", v, Ok(le(ty, w, NotCopy(v))), Ok(T_le(ty, bare, v)))
Gt == \E v \in Values(ty) : Reads("gt", v, Ok(gt(ty, w, NotCopy(v))), Ok(T_gt(ty, bare, v)))
Ge == \E v \in Values(ty) : Reads("ge", v, Ok(ge(ty, w, NotCopy(v))), Ok(T_ge(ty, bare, v)))
Cmp ==
    \E v \in Values(ty) :
        HasOrd(ty) /\ Reads("cmp", v, Ok(cmp(ty, w, NotCopy(v))), Ok(T_cmp(ty, bare, v)))

Hash ==
    \E state \in Hashers :
        HasHash(ty) /\ Reads("hash", state, Ok(hash(ty, w, state)), Ok(T_hash(ty, bare, state)))

\* The Result of a fmt with the text its Formatter then holds.
Fmted(r) == [kind |-> r.res.kind, msg |-> r.res.msg, val |-> r.f.buf]

Display ==
    \E f \in Formatters :
        HasDisplay(ty)
        /\ Reads("Display::fmt", f, Fmted(Display_fmt(ty, w, f)), Fmted(T_Display_fmt(ty, bare, f)))

Debug ==
    \E f \in Formatters :
        HasDebug(ty)
        /\ Reads("Debug::fmt", f, Fmted(Debug_fmt(ty, w, f)), Fmted(T_Debug_fmt(ty, bare, f)))

Clone == Reads("clone", Unit, Ok(clone(w)), Ok(T_clone(bare)))

Serialize ==
    \E s \in Serializers :
        HasSerde(ty) /\ Reads("serialize", s, serialize(ty, w, s), T_serialize(ty, bare, s))

\* NotCopy::<T>::deserialize(d) beside T::deserialize(d), d over any input.
Deserialize ==
    \E input \in Inputs :
        HasSerde(ty)
        /\ Reads("deserialize", input, deserialize(ty, input), T_deserialize(ty, input))

\* The same, each side reading back what its own serialize just wrote.
DeserializeWritten ==
    /\ HasSerde(ty)
    /\ last.op = "serialize"
    /\ IsOk(wres) /\ IsOk(bres)
    /\ Returns("deserialize_written", last.arg, deserialize(ty, wres.val), T_deserialize(ty, bres.val))

\* The statement ends: what it returned goes out of scope.
Drop ==
    /\ ~Idle
    /\ last' = [op |-> "none", arg |-> Unit]
    /\ wres' = Ok(Unit)
    /\ bres' = Ok(Unit)
    /\ Pure /\ Build /\ NoOwn

Next ==
    \/ New \/ From \/ Default
    \/ AddAssign \/ SubAssign \/ MulAssign \/ DivAssign \/ RemAssign
    \/ ShlAssign \/ ShrAssign \/ BitAndAssign \/ BitOrAssign \/ BitXorAssign
    \/ Index \/ IndexMut
    \/ Eq \/ Ne \/ PartialCmp \/ Lt \/ Le \/ Gt \/ Ge \/ Cmp
    \/ Hash \/ Display \/ Debug \/ Clone
    \/ Serialize \/ Deserialize \/ DeserializeWritten
    \/ Drop

Spec == Init /\ [][Next]_vars

\* ------------------------------------------------------------ ownership
\* Bindings of type NotCopy<uint>.  A binding is uninitialised, holds an
\* instance, or has been moved out of; the compiler accepts a use of a
\* binding only while it holds an instance.  `made` records, per instance,
\* the expression that created it.
IsCopy == "Copy" \in derives

\* The binding after it was used by value: a Copy type is copied out of it,
\* any other type is moved out of it.
AfterUse(slot) == IF IsCopy THEN slot ELSE Moved

IsLive(b) == slots[b].state = "live"

\* The contents the bindings are given.
OwnVals == {0, 1}

Harness == UNCHANGED <<ty, overflow_checks, w, bare, wres, bres>>

InitOwn ==
    /\ ty = "uint"
    /\ overflow_checks \in BOOLEAN
    /\ w = NotCopy(0)
    /\ bare = 0
    /\ last = [op |-> "none", arg |-> Unit]
    /\ wres = Ok(Unit)
    /\ bres = Ok(Unit)
    /\ slots = [b \in Bindings |-> Uninit]
    /\ made = <<>>

\* b = NotCopy(v);  (v any T, also one read out of another binding's field)
LetNew ==
    \E b \in Bindings, v \in OwnVals :
        /\ Len(made) < MaxInst
        /\ made' = Append(made, [how |-> "new", of |-> 0])
        /\ slots' = [slots EXCEPT ![b] = Live(Len(made) + 1, NotCopy(v))]
        /\ last' = [op |-> "new", arg |-> <<b>>]
        /\ Harness

\* b = v.into();
LetFrom ==
    \E b \in Bindings, v \in OwnVals :
        /\ Len(made) < MaxInst
        /\ made' = Append(made, [how |-> "from", of |-> 0])
        /\ slots' = [slots EXCEPT ![b] = Live(Len(made) + 1, from(v))]
        /\ last' = [op |-> "from", arg |-> <<b>>]
        /\ Harness

\* dst = src;
Assign ==
    \E dst \in Bindings, src \in Bindings :
        /\ dst # src
        /\ IsLive(src)
        /\ slots' = [slots EXCEPT ![dst] = slots[src], ![src] = AfterUse(slots[src])]
        /\ last' = [op |-> "assign", arg |-> <<dst, src>>]
        /\ UNCHANGED made
        /\ Harness

\* consume(src);  with fn consume(x: NotCopy<T>) {}
PassByValue ==
    \E src \in Bindings :
        /\ IsLive(src)
        /\ slots' = [slots EXCEPT ![src] = AfterUse(slots[src])]
        /\ last' = [op |-> "pass", arg |-> <<src>>]
        /\ UNCHANGED made
        /\ Harness

\* dst = src.clone();
CloneInto ==
    \E dst \in Bindings, src \in Bindings :
        /\ dst # src
        /\ IsLive(src)
        /\ Len(made) < MaxInst
        /\ made' = Append(made, [how |-> "clone", of |-> slots[src].inst])
        /\ slots' = [slots EXCEPT ![dst] = Live(Len(made) + 1, clone(slots[src].val))]
        /\ last' = [op |-> "clone", arg |-> <<dst, src>>]
        /\ Harness

\* b += 1;
Mutate ==
    \E b \in Bindings :
        LET r == add_assign(slots[b].val, 1)
        IN  /\ IsLive(b)
            /\ r.st[1] \in OwnVals
            /\ slots' = [slots EXCEPT ![b].val = r.st]
            /\ last' = [op |-> "add_assign", arg |-> <<b>>]
            /\ UNCHANGED made
            /\ Harness

NextOwn == LetNew \/ LetFrom \/ Assign \/ PassByValue \/ CloneInto \/ Mutate

SpecOwn == InitOwn /\ [][NextOwn]_vars

\* ------------------------------------------------------------ claims
LiveBindings == {b \in Bindings : IsLive(b)}

\* C1: a NotCopy<T> is never duplicated implicitly, also when T is Copy.  No
\* two bindings ever hold the same instance; after `dst = src` the source is
\* moved out of and the destination holds the instance; after passing a
\* binding by value it is moved out of; every instance in a binding was made
\* by an explicit expression, and an instance made from another instance was
\* made by clone, which leaves the source in place and gives the new
\* instance the same contents.
C1_NeverImplicitlyDuplicated ==
    /\ \A a \in LiveBindings, b \in LiveBindings :
          a # b => slots[a].inst # slots[b].inst
    /\ \A b \in LiveBindings : slots[b].inst \in 1 .. Len(made)
    /\ Cardinality(LiveBindings) <= Len(made)
    /\ \A i \in 1 .. Len(made) : made[i].of # 0 => made[i].how = "clone"
    /\ last.op = "assign" =>
          /\ slots[last.arg[1]].state = "live"
          /\ slots[last.arg[2]].state = "moved"
    /\ last.op = "pass" => slots[last.arg[1]].state = "moved"
    /\ last.op = "clone" =>
          /\ IsLive(last.arg[1]) /\ IsLive(last.arg[2])
          /\ slots[last.arg[1]].inst # slots[last.arg[2]].inst
          /\ slots[last.arg[1]].val = slots[last.arg[2]].val
          /\ made[slots[last.arg[1]].inst] = [how |-> "clone", of |-> slots[last.arg[2]].inst]

\* An instance was cloned, mutated apart from its clone, and then assigned
\* on: the source of the assignment is gone and two instances are in place.
C1_Witness ==
    /\ last.op = "assign"
    /\ slots[last.arg[2]].state = "moved"
    /\ Cardinality(LiveBindings) = 2
    /\ \E i \in 1 .. Len(made) : made[i].how = "clone"
    /\ \E a \in LiveBindings, b \in LiveBindings : slots[a].val # slots[b].val

CompoundOps ==
    {"add_assign", "sub_assign", "mul_assign", "div_assign", "rem_assign",
     "shl_assign", "shr_assign", "bitand_assign", "bitor_assign", "bitxor_assign"}

\* C2: each of the ten compound assignments on the wrapper leaves in w.0 the
\* value T's own compound assignment leaves in a bare T that started equal
\* and received the same operands (the operand is applied once, in place),
\* and returns nothing.
C2_CompoundAssignForwards ==
    HasCompound(ty) =>
        /\ w = NotCopy(bare)
        /\ last.op \in CompoundOps =>
              /\ wres.kind = bres.kind
              /\ IsOk(wres) => wres.val = Unit

\* w = 5.into(); w += 3 gives w.0 = 8.
C2_Witness ==
    /\ ty = "uint"
    /\ last = [op |-> "add_assign", arg |-> 3]
    /\ IsOk(wres)
    /\ w[1] = 8

\* One step, for an index valid for the contained value before it.
C3_Step ==
    /\ (last'.op = "index" /\ last'.arg < Len(w[1])) =>
          /\ wres' = Ok(Load(w[1], T_index(w[1], last'.arg).val))
          /\ wres' = Ok(w[1][last'.arg + 1])
          /\ w' = w
    /\ (last'.op = "index_mut" /\ last'.arg[1] < Len(w[1])) =>
          /\ IsOk(wres')
          /\ w' = NotCopy([w[1] EXCEPT ![last'.arg[1] + 1] = last'.arg[2]])

\* C3: at a valid index the wrapper reads the element T's indexing reads,
\* and an indexed write through the wrapper replaces that element of the
\* contained value and no other.
C3_IndexForwards == [][C3_Step]_vars

\* After wrapper[1] = 2 on Wrapper([1, 1]) the contents are [1, 2].
C3_Witness ==
    /\ ty = "vec"
    /\ last = [op |-> "index_mut", arg |-> <<1, 2>>]
    /\ w = NotCopy(<<1, 2>>)

\* C4: NotCopy(v) and the conversion from T succeed and hold v unchanged.
C4_WrapPreserves ==
    last.op \in {"new", "from"} =>
        /\ IsOk(wres)
        /\ w[1] = last.arg
        /\ w = NotCopy(last.arg)

C4_Witness ==
    /\ ty = "uint"
    /\ last = [op |-> "from", arg |-> 5]
    /\ w[1] = 5

\* C5: NotCopy(v1) == NotCopy(v2) exactly when v1 == v2 by T's equality
\* (and != exactly when T's !=).
C5_EqForwards ==
    /\ last.op = "eq" => (wres.val <=> T_eq(ty, w[1], last.arg))
    /\ last.op = "ne" => (wres.val <=> T_ne(ty, w[1], last.arg))

\* A wrapped NaN is not equal to a wrapped NaN.
C5_Witness ==
    /\ ty = "float"
    /\ last.op = "eq"
    /\ w = NotCopy(NaN)
    /\ last.arg = NaN
    /\ wres.val = FALSE

\* C6: <, <=, >, >= and the partial and total comparison of two wrappers
\* give what T's own give on the contained values.
C6_OrdForwards ==
    /\ last.op = "lt" => (wres.val <=> T_lt(ty, w[1], last.arg))
    /\ last.op = "le" => (wres.val <=> T_le(ty, w[1], last.arg))
    /\ last.op = "gt" => (wres.val <=> T_gt(ty, w[1], last.arg))
    /\ last.op = "ge" => (wres.val <=> T_ge(ty, w[1], last.arg))
    /\ last.op = "partial_cmp" => wres.val = T_partial_cmp(ty, w[1], last.arg)
    /\ last.op = "cmp" => wres.val = T_cmp(ty, w[1], last.arg)

\* [1] < [1, 0]: a proper prefix is less.
C6_Witness ==
    /\ ty = "vec"
    /\ last.op = "lt"
    /\ w = NotCopy(<<1>>)
    /\ last.arg = <<1, 0>>
    /\ wres.val = TRUE

\* C7: hashing the wrapper feeds the hasher exactly what hashing the
\* contained value feeds it, from any hasher state.
C7_HashForwards ==
    last.op = "hash" =>
        /\ wres.val = T_hash(ty, w[1], last.arg)
        /\ wres = bres

C7_Witness ==
    /\ ty = "vec"
    /\ last.op = "hash"
    /\ last.arg = <<7>>
    /\ w = NotCopy(<<1, 2>>)
    /\ wres.val = <<7, 2, 1, 2>>

\* C8: Display and Debug of the wrapper write the text, and return the
\* Result, that the same trait of the contained value does under the same
\* formatter.
C8_FmtForwards ==
    /\ last.op = "Display::fmt" => wres = Fmted(T_Display_fmt(ty, w[1], last.arg))
    /\ last.op = "Debug::fmt" => wres = Fmted(T_Debug_fmt(ty, w[1], last.arg))

\* {:+3?} of a wrapped 12 is "+12" and of nothing longer.
C8_Witness ==
    /\ ty = "uint"
    /\ last.op = "Debug::fmt"
    /\ last.arg.plus /\ last.arg.width = 3
    /\ w[1] = 12
    /\ wres = Ok(<<"+", "1", "2">>)

\* C9: the wrapper serializes to exactly what the contained value serializes
\* to; deserializing is T's deserializing with the value wrapped; and
\* reading back what the wrapper wrote gives the wrapper again.
C9_SerdeTransparent ==
    /\ last.op = "serialize" =>
          /\ wres = T_serialize(ty, w[1], last.arg)
          /\ wres = bres
    /\ last.op \in {"deserialize", "deserialize_written"} =>
          /\ wres.kind = bres.kind
          /\ IsOk(bres) => wres.val = NotCopy(bres.val)
          /\ ~IsOk(bres) => wres = bres
    /\ last.op = "deserialize_written" => (IsOk(wres) /\ wres.val = w)

C9_Witness ==
    /\ ty = "vec"
    /\ last.op = "deserialize_written"
    /\ w = NotCopy(<<2, 1>>)
    /\ wres = Ok(NotCopy(<<2, 1>>))

\* C10: an operation on the wrapper fails exactly when the same operation on
\* the bare value fails, and with the same failure; construction and
\* conversion never fail.
C10_NoFailureOfItsOwn ==
    /\ wres.kind = bres.kind
    /\ wres.msg = bres.msg
    /\ last.op \in {"new", "from", "default", "clone"} => IsOk(wres)

\* A failing inner deserialization surfaces as it is.
C10_Witness ==
    /\ last.op = "deserialize"
    /\ wres = Err("invalid type")
    /\ bres = Err("invalid type")

=============================================================================
